---- MODULE Spec2Model ----
(***************************************************************************)
(* Telemetry side channels of llama-throughput-lab:                        *)
(*   pmoves_nats_bridge.py  - optional NATS publisher (lazy global handle) *)
(*   pmoves_chit_bridge.py  - CSV archiver via the presign service         *)
(*   pmoves_metrics.py      - Prometheus registry and HTTP exporter        *)
(* The three modules share no state; each has its own specification over   *)
(* its own variables, the other modules' variables staying as imported.    *)
(***************************************************************************)
EXTENDS Integers, Sequences, FiniteSets

\* Bounds of the model (not program constants).
MaxCalls == 4
MaxMetricCalls == 2
MaxTime == 2

\* Python None in the place of a handle: no loop, no connection (ids start at 1).
None == [loop |-> 0, conn |-> 0]

(***************************************************************************)
(* Exceptions: the classes the three modules can meet, and what an except  *)
(* clause catches (Python's class hierarchy, by parent).                   *)
(***************************************************************************)
NoExc == "none"

ExcParent ==
    [ImportError |-> "Exception", OSError |-> "Exception",
     ValueError |-> "Exception", TypeError |-> "Exception",
     AttributeError |-> "Exception", NoServersError |-> "Exception",
     URLError |-> "OSError", TimeoutError |-> "OSError",
     ConnectionRefusedError |-> "OSError", FileNotFoundError |-> "OSError",
     ConnectionClosedError |-> "Exception",
     HTTPError |-> "URLError", JSONDecodeError |-> "ValueError",
     Exception |-> "BaseException"]

RECURSIVE IsSubclass(_, _)
IsSubclass(exc, cls) ==
    IF exc = cls THEN TRUE
    ELSE IF exc \in DOMAIN ExcParent THEN IsSubclass(ExcParent[exc], cls)
    ELSE FALSE

\* The exception that leaves a try block whose except clause names `classes`.
Propagated(exc, classes) ==
    IF exc = NoExc \/ \E c \in classes : IsSubclass(exc, c) THEN NoExc ELSE exc

(***************************************************************************)
(* pmoves_nats_bridge.py                                                   *)
(***************************************************************************)
VARIABLES
    natsInstalled,   \* environment: `import nats` succeeds
    brokerUp,        \* environment: the broker at NATS_URL answers
    _nc,             \* module global _nc: None or a _SyncNats handle
    connectAttempts, \* passes of _ensure_connected through its try block
    loopsCreated,    \* asyncio.new_event_loop() calls
    loopsClosed,     \* loop.close() calls
    connsCreated,    \* nats.connect() calls that returned a connection
    publishCalls,    \* calls of publish_started/_cell/_completed
    natsCalls,       \* calls of the public API of the module
    sent,            \* subjects of the messages handed to the broker
    lastNats         \* the last public call and what it did

natsVars == <<natsInstalled, brokerUp, _nc, connectAttempts, loopsCreated,
              loopsClosed, connsCreated, publishCalls, natsCalls, sent, lastNats>>

\* A call that has not happened.
NoNatsCall == [op |-> "none", outcome |-> "none", exc |-> NoExc, raised |-> FALSE,
               loop |-> 0, conn |-> 0, hadHandle |-> FALSE]

InitNats ==
    /\ natsInstalled \in BOOLEAN
    /\ brokerUp \in BOOLEAN
    /\ _nc = None
    /\ connectAttempts = 0
    /\ loopsCreated = 0
    /\ loopsClosed = 0
    /\ connsCreated = 0
    /\ publishCalls = 0
    /\ natsCalls = 0
    /\ sent = <<>>
    /\ lastNats = NoNatsCall

\* _SyncNats.__init__: a new event loop, then connect() driven on it.
\* The result is the handle when connect() returns, None when it raises.
SyncNatsInit(canConnect) ==
    IF canConnect
    THEN [loop |-> loopsCreated + 1, conn |-> connsCreated + 1]
    ELSE None

\* Mutant of MemoAfterConnect: the global is assigned before connect() ran.
MemoAfterConnectEarly(h, fresh) == [loop |-> fresh, conn |-> 0]

\* _ensure_connected, line 36: `_nc = _SyncNats(NATS_URL)` assigns only when
\* the constructor returned; on an exception _nc keeps its None.
MemoAfterConnect(h, fresh) == h

\* Mutant of PublishContext: one event loop per publish.
PublishContextPerCall(h, fresh) == [loop |-> fresh, created |-> 1]

\* _SyncNats.publish drives self._loop, the loop made in __init__.
PublishContext(h, fresh) == [loop |-> h.loop, created |-> 0]

\* _safe_publish, lines 89-90: the except branch is `pass`; _nc is not touched.
HandleAfterPublish(h, ok) == h

\* Mutant of HandleAfterClose: `_nc = None` moved inside the try block.
HandleAfterCloseInTry(h, drained) == IF drained THEN None ELSE h

\* close, line 152: `_nc = None` after the try/except, on every path.
HandleAfterClose(h, drained) == None

\* What the nats client raises when the broker does not answer.
NatsErrors == {"ConnectionRefusedError", "NoServersError", "TimeoutError"}

\* The record of a public call: the exception met inside it, the exception
\* that left it, and the loop and connection a publish was driven on.
NatsCall(op, outcome, exc, handled, loop, conn, had) ==
    [op |-> op, outcome |-> outcome, exc |-> exc,
     raised |-> Propagated(exc, handled) # NoExc,
     loop |-> loop, conn |-> conn, hadHandle |-> had]

\* _safe_publish(subject, payload) with _ensure_connected inlined.
\* serialisable: json.dumps(payload) in _envelope succeeds.
\* err: what the client raises in this call if the broker does not answer.
SafePublish(op, subject, serialisable, err) ==
    /\ natsCalls < MaxCalls
    /\ natsCalls' = natsCalls + 1
    /\ publishCalls' = publishCalls + 1
    /\ UNCHANGED <<natsInstalled, brokerUp, loopsClosed>>
    /\ IF _nc # None
       THEN \* memoized handle (lines 29-30), then nc.publish (line 88)
            LET ctx == PublishContext(_nc, loopsCreated + 1) IN
            /\ UNCHANGED <<connectAttempts, connsCreated>>
            /\ IF ~serialisable
               THEN \* _envelope raises TypeError before nc.publish is entered
                    /\ loopsCreated' = loopsCreated
                    /\ _nc' = HandleAfterPublish(_nc, FALSE)
                    /\ sent' = sent
                    /\ lastNats' = NatsCall(op, "encode_failed", "TypeError",
                                            {"Exception"}, 0, 0, TRUE)
               ELSE IF brokerUp
               THEN /\ loopsCreated' = loopsCreated + ctx.created
                    /\ _nc' = HandleAfterPublish(_nc, TRUE)
                    /\ sent' = Append(sent, subject)
                    /\ lastNats' = NatsCall(op, "sent", NoExc, {"Exception"},
                                            ctx.loop, _nc.conn, TRUE)
               ELSE \* publish() or flush() raises (lines 60-61); the message
                    \* may or may not have left before flush() failed
                    \E delivered \in BOOLEAN :
                    /\ loopsCreated' = loopsCreated + ctx.created
                    /\ _nc' = HandleAfterPublish(_nc, FALSE)
                    /\ sent' = IF delivered THEN Append(sent, subject) ELSE sent
                    /\ lastNats' = NatsCall(op, "publish_failed", err,
                                            {"Exception"}, ctx.loop, _nc.conn, TRUE)
       ELSE \* lines 31-39: one pass through the try block
            /\ connectAttempts' = connectAttempts + 1
            /\ IF ~natsInstalled
               THEN \* `import nats` raises ImportError (line 32)
                    /\ UNCHANGED <<loopsCreated, connsCreated, sent>>
                    /\ _nc' = None
                    /\ lastNats' = NatsCall(op, "no_library", "ImportError",
                                            {"Exception"}, 0, 0, FALSE)
               ELSE LET h == SyncNatsInit(brokerUp)
                        m == MemoAfterConnect(h, loopsCreated + 1)
                        ctx == PublishContext(m, loopsCreated + 2) IN
                    IF h = None
                    THEN \* connect() raised: the loop of line 50 is dropped,
                         \* _ensure_connected returns None (lines 38-39)
                         /\ loopsCreated' = loopsCreated + 1
                         /\ UNCHANGED <<connsCreated, sent>>
                         /\ _nc' = m
                         /\ lastNats' = NatsCall(op, "connect_failed", err,
                                                 {"Exception"}, 0, 0, FALSE)
                    ELSE IF ~serialisable
                    THEN /\ loopsCreated' = loopsCreated + 1
                         /\ connsCreated' = connsCreated + 1
                         /\ _nc' = HandleAfterPublish(m, FALSE)
                         /\ sent' = sent
                         /\ lastNats' = NatsCall(op, "encode_failed", "TypeError",
                                                 {"Exception"}, 0, 0, FALSE)
                    ELSE /\ loopsCreated' = loopsCreated + 1 + ctx.created
                         /\ connsCreated' = connsCreated + 1
                         /\ _nc' = HandleAfterPublish(m, TRUE)
                         /\ sent' = Append(sent, subject)
                         /\ lastNats' = NatsCall(op, "sent", NoExc, {"Exception"},
                                                 ctx.loop, m.conn, FALSE)

publish_started ==
    \E s \in BOOLEAN, e \in NatsErrors :
        SafePublish("publish_started", "llama.benchmark.started.v1", s, e)

publish_cell ==
    \E s \in BOOLEAN, e \in NatsErrors :
        SafePublish("publish_cell", "llama.benchmark.cell.v1", s, e)

publish_completed ==
    \E s \in BOOLEAN, e \in NatsErrors :
        SafePublish("publish_completed", "llama.benchmark.completed.v1", s, e)

\* close(): drain on the handle's loop, then loop.close(); any exception of
\* _SyncNats.close is swallowed (lines 150-151); the global is cleared.
CloseWith(err) ==
    /\ natsCalls < MaxCalls
    /\ natsCalls' = natsCalls + 1
    /\ UNCHANGED <<natsInstalled, brokerUp, connectAttempts, loopsCreated,
                   connsCreated, publishCalls, sent>>
    /\ IF _nc = None
       THEN /\ UNCHANGED <<_nc, loopsClosed>>
            /\ lastNats' = NatsCall("close", "noop", NoExc, {"Exception"},
                                    0, 0, FALSE)
       ELSE LET drained == brokerUp IN
            /\ _nc' = HandleAfterClose(_nc, drained)
            /\ loopsClosed' = IF drained THEN loopsClosed + 1 ELSE loopsClosed
            /\ lastNats' = NatsCall("close",
                                    IF drained THEN "drained" ELSE "drain_failed",
                                    IF drained THEN NoExc ELSE err,
                                    {"Exception"}, _nc.loop, _nc.conn, TRUE)

close == \E e \in NatsErrors : CloseWith(e)

\* Environment: the broker becomes unreachable, or reachable again.
BrokerDown ==
    /\ brokerUp
    /\ brokerUp' = FALSE
    /\ UNCHANGED <<natsInstalled, _nc, connectAttempts, loopsCreated, loopsClosed,
                   connsCreated, publishCalls, natsCalls, sent, lastNats>>

BrokerUp ==
    /\ ~brokerUp
    /\ brokerUp' = TRUE
    /\ UNCHANGED <<natsInstalled, _nc, connectAttempts, loopsCreated, loopsClosed,
                   connsCreated, publishCalls, natsCalls, sent, lastNats>>


(***************************************************************************)
(* pmoves_chit_bridge.py: archive_csv_to_minio                             *)
(***************************************************************************)
VARIABLES
    PRESIGN_SECRET,  \* module constant read from the environment at import
    archPc,          \* where the call stands: idle or waiting for a response
    archArgs,        \* csv_path, bucket and the object key in use
    upload_url,      \* local upload_url of the running call
    reqs,            \* requests the running (or last) call has sent, in order
    resps,           \* the responses it got, in order
    archResult       \* how the last call ended

archVars == <<PRESIGN_SECRET, archPc, archArgs, upload_url, reqs, resps, archResult>>

\* Paths as their segments; os.path.basename is the last one ("" after a
\* trailing slash).
CsvPaths == {<<"tmp", "run.csv">>, <<"data", "sweep.csv">>,
             <<"tmp", "gone.csv">>, <<"tmp", "">>}
Basename(path) == path[Len(path)]

\* The files of the host: their bytes, or "missing" (open() raises).
FileBytes(path) ==
    CASE path = <<"tmp", "run.csv">> -> "bytes_run"
      [] path = <<"data", "sweep.csv">> -> "bytes_sweep"
      [] OTHER -> "missing"

Buckets == {"outputs", "archive"}
NoKey == <<>>
ObjectKeys == {NoKey, <<"custom", "key.csv">>}

\* lines 90-91: the default key is the fixed prefix plus the base name.
DefaultKey(object_key, csv_path) ==
    IF object_key = NoKey
    THEN <<"llama-throughput-lab", Basename(csv_path)>>
    ELSE object_key

\* The `url` member of a gateway answer: absent, empty, a URL, or text that
\* is no URL.
NoUrl == "None"
ValidUrls == {"u1", "u2"}
UrlField == {NoUrl, "", "not-a-url"} \cup ValidUrls

\* What urlopen raises when the service is unreachable, slow or refuses.
NetErrors == {"URLError", "HTTPError", "TimeoutError"}

Resp(status, exc, json, url) ==
    [status |-> status, exc |-> exc, json |-> json, url |-> url]

\* What the presign gateway can answer: an error of urlopen, or a 200 whose
\* body is no JSON, JSON but no object, or an object with or without `url`.
PresignResponses ==
    {Resp("error", e, "none", NoUrl) : e \in NetErrors}
    \cup {Resp("ok", NoExc, "invalid", NoUrl), Resp("ok", NoExc, "array", NoUrl)}
    \cup {Resp("ok", NoExc, "object", u) : u \in UrlField}

UploadResponses ==
    {Resp("error", e, "none", NoUrl) : e \in NetErrors}
    \cup {Resp("ok", NoExc, "none", NoUrl)}

\* lines 108-110 and 137-139: urlopen, json.loads(resp.read()), data.get("url").
\* The exception raised, if any.
ReadUrlExc(r) ==
    IF r.status = "error" THEN r.exc
    ELSE IF r.json = "invalid" THEN "JSONDecodeError"
    ELSE IF r.json = "array" THEN "AttributeError"
    ELSE NoExc

\* The value of data.get("url") when nothing was raised.
ReadUrl(r) == r.url

\* line 140: except (URLError, OSError).
ArchiveHandled == {"URLError", "OSError"}

\* line 112: `if not upload_url: return None` (None and "" are falsy).
UploadUrlUsable(u) == u # NoUrl /\ u # ""

\* Mutant of DownloadPresignAllowed: the upload's failure is ignored.
DownloadPresignAllowedAlways(r) == TRUE

\* line 122: urlopen(put_req) raises on a refused or failed upload, which
\* leaves the try block before the second presign.
DownloadPresignAllowed(r) == r.status = "ok"

PresignRequest(bucket, key, method) ==
    [kind |-> "presign", bucket |-> bucket, key |-> key, method |-> method,
     auth |-> PRESIGN_SECRET, url |-> "presign", data |-> "none"]

PutRequest(url, data) ==
    [kind |-> "upload", bucket |-> "none", key |-> <<>>, method |-> "PUT",
     auth |-> "none", url |-> url, data |-> data]

\* The end of a call: the value returned, or the exception that left it.
Ended(value, exc) ==
    [done |-> TRUE, value |-> IF Propagated(exc, ArchiveHandled) = NoExc
                              THEN value ELSE NoUrl,
     exc |-> exc, raised |-> Propagated(exc, ArchiveHandled)]

NotEnded == [done |-> FALSE, value |-> NoUrl, exc |-> NoExc, raised |-> NoExc]

InitArchive ==
    /\ PRESIGN_SECRET \in {"", "s3cr3t"}
    /\ archPc = "idle"
    /\ archArgs = [csv_path |-> <<"tmp", "run.csv">>, bucket |-> "outputs",
                   key |-> NoKey]
    /\ upload_url = NoUrl
    /\ reqs = <<>>
    /\ resps = <<>>
    /\ archResult = NotEnded

\* lines 87-108: the entry of the call, up to the first urlopen.
archive_csv_to_minio(csv_path, bucket, object_key) ==
    /\ archPc = "idle"
    /\ UNCHANGED PRESIGN_SECRET
    /\ upload_url' = NoUrl
    /\ resps' = <<>>
    /\ IF PRESIGN_SECRET = ""
       THEN /\ archArgs' = [csv_path |-> csv_path, bucket |-> bucket,
                            key |-> object_key]
            /\ reqs' = <<>>
            /\ archResult' = Ended(NoUrl, NoExc)
            /\ archPc' = "idle"
       ELSE LET key == DefaultKey(object_key, csv_path) IN
            /\ archArgs' = [csv_path |-> csv_path, bucket |-> bucket, key |-> key]
            /\ reqs' = <<PresignRequest(bucket, key, "PUT")>>
            /\ archResult' = NotEnded
            /\ archPc' = "presign_put"

\* lines 108-122: the first presign answers; then the file is opened and the
\* PUT is sent.
PresignPutReturns(r) ==
    /\ archPc = "presign_put"
    /\ UNCHANGED <<PRESIGN_SECRET, archArgs>>
    /\ resps' = Append(resps, r)
    /\ LET exc == ReadUrlExc(r)
           u == ReadUrl(r)
           bytes == FileBytes(archArgs.csv_path) IN
       IF exc # NoExc
       THEN /\ archResult' = Ended(NoUrl, exc)
            /\ archPc' = "idle"
            /\ UNCHANGED <<upload_url, reqs>>
       ELSE IF ~UploadUrlUsable(u)
       THEN /\ upload_url' = u
            /\ archResult' = Ended(NoUrl, NoExc)
            /\ archPc' = "idle"
            /\ UNCHANGED reqs
       ELSE IF bytes = "missing"
       THEN \* open(csv_path, "rb") raises (line 115)
            /\ upload_url' = u
            /\ archResult' = Ended(NoUrl, "FileNotFoundError")
            /\ archPc' = "idle"
            /\ UNCHANGED reqs
       ELSE IF u \notin ValidUrls
       THEN \* Request(upload_url) raises ValueError: unknown url type
            /\ upload_url' = u
            /\ archResult' = Ended(NoUrl, "ValueError")
            /\ archPc' = "idle"
            /\ UNCHANGED reqs
       ELSE /\ upload_url' = u
            /\ reqs' = Append(reqs, PutRequest(u, bytes))
            /\ archResult' = NotEnded
            /\ archPc' = "upload"

\* lines 122-137: the upload answers; then the download presign is asked.
UploadReturns(r) ==
    /\ archPc = "upload"
    /\ UNCHANGED <<PRESIGN_SECRET, archArgs, upload_url>>
    /\ resps' = Append(resps, r)
    /\ IF DownloadPresignAllowed(r)
       THEN /\ reqs' = Append(reqs, PresignRequest(archArgs.bucket, archArgs.key, "GET"))
            /\ archResult' = NotEnded
            /\ archPc' = "presign_get"
       ELSE /\ archResult' = Ended(NoUrl, r.exc)
            /\ archPc' = "idle"
            /\ UNCHANGED reqs

\* lines 137-141: the second presign answers; its url is returned.
PresignGetReturns(r) ==
    /\ archPc = "presign_get"
    /\ UNCHANGED <<PRESIGN_SECRET, archArgs, upload_url, reqs>>
    /\ resps' = Append(resps, r)
    /\ archResult' = Ended(ReadUrl(r), ReadUrlExc(r))
    /\ archPc' = "idle"


(***************************************************************************)
(* pmoves_metrics.py: the registry                                         *)
(***************************************************************************)
VARIABLES
    _HAS_PROM,       \* prometheus_client was imported (lines 19-29)
    THROUGHPUT_TPS,  \* gauge, labels (model, sweep_type, config)
    SWEEPS_TOTAL,    \* counter, label sweep_type
    ERRORS_TOTAL,    \* counter, label sweep_type
    LAST_SWEEP_TS,   \* gauge without labels
    BEST_THROUGHPUT, \* gauge, labels (model, sweep_type)
    now,             \* time.time()
    metricCalls,     \* calls of update_cell and update_sweep
    lastMetric       \* the last of those calls and how it ended

registryVars == <<_HAS_PROM, THROUGHPUT_TPS, SWEEPS_TOTAL, ERRORS_TOTAL,
                  LAST_SWEEP_TS, BEST_THROUGHPUT, now, metricCalls, lastMetric>>

Models == {"m1", "m2"}
SweepTypes == {"s1", "s2"}
ConfigLabels == {"c1", "c2"}
TpsValues == {10, 20}
ErrorCounts == {-1, 0, 2}

\* A labelled child: absent until .labels(...) first names it.
Absent == [present |-> FALSE, value |-> 0]
Sample(v) == [present |-> TRUE, value |-> v]

CellKeys == Models \X SweepTypes \X ConfigLabels
BestKeys == Models \X SweepTypes

NoMetricCall == [op |-> "none", model |-> "none", sweep_type |-> "none",
                 config |-> "none", value |-> 0, errors |-> 0, raised |-> NoExc]

InitRegistry ==
    /\ _HAS_PROM \in BOOLEAN
    /\ THROUGHPUT_TPS = [k \in CellKeys |-> Absent]
    /\ SWEEPS_TOTAL = [k \in SweepTypes |-> Absent]
    /\ ERRORS_TOTAL = [k \in SweepTypes |-> Absent]
    /\ LAST_SWEEP_TS = 0
    /\ BEST_THROUGHPUT = [k \in BestKeys |-> Absent]
    /\ now = 1
    /\ metricCalls = 0
    /\ lastMetric = NoMetricCall

\* Mutant of ThroughputLabels: the config label is left out of the key.
ThroughputLabelsNoConfig(model, sweep_type, config_label) ==
    <<model, sweep_type, "c1">>

\* lines 75-77: THROUGHPUT_TPS.labels(model=, sweep_type=, config=).
ThroughputLabels(model, sweep_type, config_label) ==
    <<model, sweep_type, config_label>>

\* line 78: `if errors:` - any non-zero count, a negative one too.
ErrorsGuard(errors) == errors # 0

\* Counter.inc(amount) of prometheus_client: a negative amount raises
\* ValueError and leaves the counter as it is.
CounterIncExc(amount) == IF amount < 0 THEN "ValueError" ELSE NoExc

\* .labels(...).inc(amount): the child is made at 0 when first named.
CounterInc(c, amount) ==
    IF CounterIncExc(amount) # NoExc THEN Sample(c.value)
    ELSE Sample(c.value + amount)

\* update_cell (lines 65-79).
update_cell(model, sweep_type, config_label, throughput_tps, errors) ==
    /\ metricCalls < MaxMetricCalls
    /\ metricCalls' = metricCalls + 1
    /\ UNCHANGED <<_HAS_PROM, SWEEPS_TOTAL, LAST_SWEEP_TS, BEST_THROUGHPUT, now>>
    /\ IF ~_HAS_PROM
       THEN /\ UNCHANGED <<THROUGHPUT_TPS, ERRORS_TOTAL>>
            /\ lastMetric' = [op |-> "update_cell", model |-> model,
                              sweep_type |-> sweep_type, config |-> config_label,
                              value |-> throughput_tps, errors |-> errors,
                              raised |-> NoExc]
       ELSE /\ THROUGHPUT_TPS' =
                  [THROUGHPUT_TPS EXCEPT
                      ![ThroughputLabels(model, sweep_type, config_label)] =
                          Sample(throughput_tps)]
            /\ ERRORS_TOTAL' =
                  IF ErrorsGuard(errors)
                  THEN [ERRORS_TOTAL EXCEPT
                           ![sweep_type] = CounterInc(ERRORS_TOTAL[sweep_type], errors)]
                  ELSE ERRORS_TOTAL
            /\ lastMetric' = [op |-> "update_cell", model |-> model,
                              sweep_type |-> sweep_type, config |-> config_label,
                              value |-> throughput_tps, errors |-> errors,
                              raised |-> IF ErrorsGuard(errors)
                                         THEN CounterIncExc(errors) ELSE NoExc]

\* update_sweep (lines 82-94).
update_sweep(model, sweep_type, best_throughput) ==
    /\ metricCalls < MaxMetricCalls
    /\ metricCalls' = metricCalls + 1
    /\ UNCHANGED <<_HAS_PROM, THROUGHPUT_TPS, ERRORS_TOTAL, now>>
    /\ lastMetric' = [op |-> "update_sweep", model |-> model,
                      sweep_type |-> sweep_type, config |-> "none",
                      value |-> best_throughput, errors |-> 0, raised |-> NoExc]
    /\ IF ~_HAS_PROM
       THEN UNCHANGED <<SWEEPS_TOTAL, LAST_SWEEP_TS, BEST_THROUGHPUT>>
       ELSE /\ SWEEPS_TOTAL' =
                  [SWEEPS_TOTAL EXCEPT
                      ![sweep_type] = CounterInc(SWEEPS_TOTAL[sweep_type], 1)]
            /\ LAST_SWEEP_TS' = now
            /\ BEST_THROUGHPUT' =
                  [BEST_THROUGHPUT EXCEPT ![<<model, sweep_type>>] =
                      Sample(best_throughput)]

\* The clock advances.
Tick ==
    /\ now < MaxTime
    /\ now' = now + 1
    /\ UNCHANGED <<_HAS_PROM, THROUGHPUT_TPS, SWEEPS_TOTAL, ERRORS_TOTAL,
                   LAST_SWEEP_TS, BEST_THROUGHPUT, metricCalls, lastMetric>>

(***************************************************************************)
(* pmoves_metrics.py: the HTTP exporter                                    *)
(***************************************************************************)
VARIABLES
    _server,         \* module global _server: NoServer or the port it is bound to
    listeners,       \* ports this process holds a listening socket on
    busyPorts,       \* environment: ports another process holds
    daemonThreads,   \* threads started on serve_forever (line 141)
    threadAt,        \* where each calling thread is
    lastStart,       \* the last start_server call and how it ended
    lastHttp         \* the last GET and its answer

exporterVars == <<_server, listeners, busyPorts, daemonThreads, threadAt,
                  lastStart, lastHttp>>

METRICS_PORT == 8201
\* A port a caller passes instead of the default.
OtherPort == 9100
Ports == {METRICS_PORT, OtherPort}
\* line 126: _server = None.
NoServer == 0
Threads == {"main", "sweep"}
Paths == {"/healthz", "/metrics", "/", "/healthz/", "/metrics?x=1"}

\* generate_latest(): the registry as it stands.
Snapshot ==
    [tps |-> THROUGHPUT_TPS, sweeps |-> SWEEPS_TOTAL, errors |-> ERRORS_TOTAL,
     last_ts |-> LAST_SWEEP_TS, best |-> BEST_THROUGHPUT]
NoBody == [tps |-> <<>>, sweeps |-> <<>>, errors |-> <<>>, last_ts |-> 0,
           best |-> <<>>]

NoStart == [thread |-> "none", port |-> 0, background |-> FALSE,
            outcome |-> "none", raised |-> NoExc]
NoHttp == [path |-> "none", status |-> 0, ctype |-> "none", text |-> "none",
           body |-> NoBody]

InitExporter ==
    /\ _server = NoServer
    /\ listeners = {}
    /\ busyPorts \in {{}, {OtherPort}}
    /\ daemonThreads = 0
    /\ threadAt = [t \in Threads |-> "running"]
    /\ lastStart = NoStart
    /\ lastHttp = NoHttp

\* Mutant of AlreadyStarted: the guard compares the port as well.
AlreadyStartedSamePort(port) == _server = port

\* lines 136-137: `if _server is not None: return`.
AlreadyStarted(port) == _server # NoServer

\* start_server (lines 129-143), called by thread t. The module takes no
\* lock and its callers are serialized, so the test of _server, the bind and
\* the assignment are one step; a caller with background=False stays in
\* serve_forever and takes no further step.
start_server(t, port, background) ==
    /\ threadAt[t] = "running"
    /\ UNCHANGED busyPorts
    /\ UNCHANGED lastHttp
    /\ IF AlreadyStarted(port)
       THEN /\ UNCHANGED <<_server, listeners, daemonThreads, threadAt>>
            /\ lastStart' = [thread |-> t, port |-> port, background |-> background,
                             outcome |-> "noop", raised |-> NoExc]
       ELSE IF port \in busyPorts \cup listeners
       THEN \* HTTPServer(...) raises OSError: address already in use
            /\ UNCHANGED <<_server, listeners, daemonThreads, threadAt>>
            /\ lastStart' = [thread |-> t, port |-> port, background |-> background,
                             outcome |-> "bind_failed", raised |-> "OSError"]
       ELSE /\ _server' = port
            /\ listeners' = listeners \cup {port}
            /\ IF background
               THEN /\ daemonThreads' = daemonThreads + 1
                    /\ UNCHANGED threadAt
                    /\ lastStart' = [thread |-> t, port |-> port,
                                     background |-> background,
                                     outcome |-> "returned", raised |-> NoExc]
               ELSE /\ UNCHANGED daemonThreads
                    /\ threadAt' = [threadAt EXCEPT ![t] = "serve_forever"]
                    /\ lastStart' = [thread |-> t, port |-> port,
                                     background |-> background,
                                     outcome |-> "serving", raised |-> NoExc]

\* Someone serves the listener: a daemon thread or a blocked caller.
Serving == daemonThreads > 0 \/ \E t \in Threads : threadAt[t] = "serve_forever"

\* Mutant of MetricsRoute: the route does not look at _HAS_PROM.
MetricsRouteAlways(path) == path = "/metrics"

\* line 111: `elif self.path == "/metrics" and _HAS_PROM`.
MetricsRoute(path) == path = "/metrics" /\ _HAS_PROM

\* _Handler.do_GET (lines 103-119).
do_GET(path) ==
    /\ Serving
    /\ UNCHANGED <<_server, listeners, busyPorts, daemonThreads, threadAt, lastStart>>
    /\ lastHttp' =
          IF path = "/healthz"
          THEN [path |-> path, status |-> 200, ctype |-> "application/json",
                text |-> "{\"ok\":true}", body |-> NoBody]
          ELSE IF MetricsRoute(path)
          THEN [path |-> path, status |-> 200, ctype |-> "CONTENT_TYPE_LATEST",
                text |-> "exposition", body |-> Snapshot]
          ELSE [path |-> path, status |-> 404, ctype |-> "text/html",
                text |-> "error", body |-> NoBody]

(***************************************************************************)
(* Specifications: one per module, the other modules imported and unused.  *)
(***************************************************************************)
vars == <<natsVars, archVars, registryVars, exporterVars>>

NatsUnused == InitNats /\ natsInstalled /\ brokerUp
ArchiveUnused == InitArchive /\ PRESIGN_SECRET = ""
RegistryUnused == InitRegistry /\ _HAS_PROM
ExporterUnused == InitExporter /\ busyPorts = {}

\* pmoves_nats_bridge.py alone.
InitNatsOnly == InitNats /\ ArchiveUnused /\ RegistryUnused /\ ExporterUnused

NextNatsOnly ==
    \/ publish_started /\ UNCHANGED <<archVars, registryVars, exporterVars>>
    \/ publish_cell /\ UNCHANGED <<archVars, registryVars, exporterVars>>
    \/ publish_completed /\ UNCHANGED <<archVars, registryVars, exporterVars>>
    \/ close /\ UNCHANGED <<archVars, registryVars, exporterVars>>
    \/ BrokerDown /\ UNCHANGED <<archVars, registryVars, exporterVars>>
    \/ BrokerUp /\ UNCHANGED <<archVars, registryVars, exporterVars>>

SpecNats == InitNatsOnly /\ [][NextNatsOnly]_vars

\* pmoves_chit_bridge.py alone.
InitArchiveOnly == InitArchive /\ NatsUnused /\ RegistryUnused /\ ExporterUnused

NextArchiveOnly ==
    \/ \E p \in CsvPaths, b \in Buckets, k \in ObjectKeys :
          archive_csv_to_minio(p, b, k)
          /\ UNCHANGED <<natsVars, registryVars, exporterVars>>
    \/ \E r \in PresignResponses :
          PresignPutReturns(r) /\ UNCHANGED <<natsVars, registryVars, exporterVars>>
    \/ \E r \in UploadResponses :
          UploadReturns(r) /\ UNCHANGED <<natsVars, registryVars, exporterVars>>
    \/ \E r \in PresignResponses :
          PresignGetReturns(r) /\ UNCHANGED <<natsVars, registryVars, exporterVars>>

SpecArchive == InitArchiveOnly /\ [][NextArchiveOnly]_vars

\* pmoves_metrics.py: the registry under the sweep scripts' calls.
InitRegistryOnly == InitRegistry /\ ExporterUnused /\ NatsUnused /\ ArchiveUnused

NextRegistryOnly ==
    \/ \E m \in Models, s \in SweepTypes, c \in ConfigLabels,
          v \in TpsValues, e \in ErrorCounts :
          update_cell(m, s, c, v, e)
          /\ UNCHANGED <<natsVars, archVars, exporterVars>>
    \/ \E m \in Models, s \in SweepTypes, v \in TpsValues :
          update_sweep(m, s, v) /\ UNCHANGED <<natsVars, archVars, exporterVars>>
    \/ Tick /\ UNCHANGED <<natsVars, archVars, exporterVars>>

SpecRegistry == InitRegistryOnly /\ [][NextRegistryOnly]_vars

\* pmoves_metrics.py: the exporter, the registry moving under it.
InitExporterOnly == InitRegistry /\ InitExporter /\ NatsUnused /\ ArchiveUnused

NextExporterOnly ==
    \/ \E t \in Threads, p \in Ports, b \in BOOLEAN :
          start_server(t, p, b) /\ UNCHANGED <<natsVars, archVars, registryVars>>
    \/ \E p \in Paths :
          do_GET(p) /\ UNCHANGED <<natsVars, archVars, registryVars>>
    \/ \E s \in SweepTypes, v \in TpsValues :
          update_sweep("m1", s, v) /\ UNCHANGED <<natsVars, archVars, exporterVars>>

SpecExporter == InitExporterOnly /\ [][NextExporterOnly]_vars

(***************************************************************************)
(* Claims about pmoves_nats_bridge.py                                      *)
(***************************************************************************)
PublishStep == publishCalls' = publishCalls + 1
CloseStep == natsCalls' = natsCalls + 1 /\ publishCalls' = publishCalls
CannotConnect == ~natsInstalled \/ ~brokerUp

\* C1: while the broker cannot be connected to (client library missing or
\* connect fails), a publish call on the unset handle returns without
\* raising, makes at most one connection attempt, sends nothing and leaves
\* the handle unset; close() on the never-connected adapter changes nothing
\* and does not raise.
C1_UnreachableBrokerIsSilent ==
    [][ /\ (PublishStep /\ _nc = None /\ CannotConnect) =>
              /\ ~lastNats'.raised
              /\ connectAttempts' - connectAttempts <= 1
              /\ sent' = sent
              /\ connsCreated' = connsCreated
              /\ _nc' = None
        /\ (CloseStep /\ _nc = None /\ connsCreated = 0) =>
              /\ ~lastNats'.raised
              /\ UNCHANGED <<_nc, sent, connectAttempts, loopsCreated,
                             loopsClosed, connsCreated>>
      ]_natsVars

\* A close() that found no handle, after a publish whose connect failed.
C1_Witness ==
    /\ lastNats.op = "close"
    /\ lastNats.outcome = "noop"
    /\ connsCreated = 0
    /\ loopsCreated >= 1
    /\ sent = <<>>

\* C3 (as claimed): a publish that failed on a connected handle leaves the
\* adapter DISCONNECTED, the handle discarded.
C3_FailedHandleDiscarded ==
    lastNats.outcome = "publish_failed" => _nc = None

\* C4: close() never raises and always leaves the handle unset; with a handle
\* it attempts the drain, and clears the handle whether the drain returns or
\* raises; the first publish after a close() goes through a connection
\* attempt and not through the closed handle.
C4_CloseAlwaysClears ==
    [][ /\ CloseStep =>
              /\ _nc' = None
              /\ ~lastNats'.raised
              /\ (_nc # None => lastNats'.outcome \in {"drained", "drain_failed"})
        /\ (PublishStep /\ lastNats.op = "close") =>
              /\ connectAttempts' = connectAttempts + 1
              /\ ~lastNats'.hadHandle
              /\ (lastNats'.outcome = "sent" =>
                     lastNats'.conn = connsCreated' /\ connsCreated' = connsCreated + 1)
      ]_natsVars

\* A close() whose drain raised: the handle is gone all the same.
C4_Witness ==
    /\ lastNats.op = "close"
    /\ lastNats.outcome = "drain_failed"
    /\ lastNats.exc # NoExc
    /\ _nc = None

\* C10: while a handle is memoized, no event loop and no connection has been
\* created since the connect that made it, and every publish was driven on
\* the handle's own loop and connection.
C10_OneLoopPerHandle ==
    _nc # None =>
        /\ loopsCreated = _nc.loop
        /\ connsCreated = _nc.conn
        /\ (lastNats.outcome \in {"sent", "publish_failed"} =>
               lastNats.loop = _nc.loop /\ lastNats.conn = _nc.conn)

\* Three publishes on the handle of a single connect.
C10_Witness ==
    /\ _nc # None
    /\ connectAttempts = 1
    /\ publishCalls >= 3
    /\ lastNats.outcome = "sent"
    /\ lastNats.hadHandle

(***************************************************************************)
(* Claims about pmoves_chit_bridge.py                                      *)
(***************************************************************************)

\* C2 (as claimed): whatever fails inside archive_csv_to_minio - the network,
\* a body that is no JSON or no object, a missing url, the file - the call
\* ends with None and no exception reaches the caller.
C2_ArchiveNeverRaises ==
    (archResult.done /\ archResult.exc # NoExc) =>
        (archResult.raised = NoExc /\ archResult.value = NoUrl)

\* C7: the requests of one call are, in order, presign(PUT), the PUT of the
\* file's bytes to the url the first presign returned, presign(GET) for the
\* same bucket and key; the PUT is sent only after a non-empty url, the second
\* presign only after an upload that succeeded, nothing at all without the
\* secret; when the three answers are good the result is the third one's url.
C7_PresignUploadPresign ==
    /\ Len(reqs) <= 3
    /\ Len(resps) <= Len(reqs)
    /\ PRESIGN_SECRET = "" =>
          /\ reqs = <<>>
          /\ (archResult.done => archResult.value = NoUrl /\ archResult.raised = NoExc)
    /\ Len(reqs) >= 1 =>
          reqs[1] = PresignRequest(archArgs.bucket, archArgs.key, "PUT")
    /\ Len(reqs) >= 2 =>
          /\ resps[1].status = "ok" /\ resps[1].json = "object"
          /\ resps[1].url \notin {NoUrl, ""}
          /\ reqs[2] = PutRequest(resps[1].url, FileBytes(archArgs.csv_path))
          /\ reqs[2].data # "missing"
    /\ Len(reqs) = 3 =>
          /\ resps[2].status = "ok"
          /\ reqs[3] = PresignRequest(reqs[1].bucket, reqs[1].key, "GET")
    /\ (archResult.done /\ Len(resps) = 3 /\ resps[3].status = "ok"
        /\ resps[3].json = "object") =>
          /\ archResult.value = resps[3].url
          /\ archResult.raised = NoExc

\* The end-to-end case: u1 for the PUT, u2 for the GET, /tmp/run.csv
\* archived under the default key, u2 returned.
C7_Witness ==
    /\ archResult.done
    /\ archArgs.csv_path = <<"tmp", "run.csv">>
    /\ archArgs.key = <<"llama-throughput-lab", "run.csv">>
    /\ Len(reqs) = 3
    /\ reqs[2].url = "u1"
    /\ resps[3].url = "u2"
    /\ archResult.value = "u2"

(***************************************************************************)
(* Claims about pmoves_metrics.py                                          *)
(***************************************************************************)
CellStep == metricCalls' = metricCalls + 1 /\ lastMetric'.op = "update_cell"
BlockedThreads == {t \in Threads : threadAt[t] = "serve_forever"}

\* C5: once a listener is bound, a later start_server call, whatever its port
\* and background, changes nothing: at most one listener and one serving
\* thread of execution ever exist; the call that binds returns at once with
\* background=True and stays in serve_forever with background=False.
C5_StartServerIdempotent ==
    [][ /\ _server # NoServer =>
              /\ UNCHANGED <<_server, listeners, daemonThreads, threadAt>>
              /\ (lastStart' # lastStart => lastStart'.outcome = "noop")
        /\ Cardinality(listeners') <= 1
        /\ daemonThreads' + Cardinality(BlockedThreads') <= 1
        /\ \A t \in Threads :
              threadAt[t] = "serve_forever" => threadAt'[t] = "serve_forever"
        /\ (lastStart' # lastStart /\ lastStart'.outcome = "returned") =>
              /\ lastStart'.background
              /\ threadAt'[lastStart'.thread] = "running"
              /\ daemonThreads' = 1
        /\ (lastStart' # lastStart /\ lastStart'.outcome = "serving") =>
              /\ ~lastStart'.background
              /\ threadAt'[lastStart'.thread] = "serve_forever"
      ]_vars

\* One thread blocked in serve_forever; a second call, for another port,
\* came back without a second listener.
C5_Witness ==
    /\ lastStart.outcome = "noop"
    /\ lastStart.port # _server
    /\ BlockedThreads # {}
    /\ listeners = {_server}
    /\ daemonThreads = 0

\* C6: GET /healthz is answered 200 {"ok":true} with or without the metrics
\* library; GET /metrics is answered 200 with the registry as it stands when
\* the library was imported and 404 when it was not; any other path gets 404.
C6_Routes ==
    [][ /\ lastHttp'.path = "/healthz" =>
              /\ lastHttp'.status = 200
              /\ lastHttp'.text = "{\"ok\":true}"
              /\ lastHttp'.ctype = "application/json"
        /\ lastHttp'.path = "/metrics" =>
              lastHttp'.status = (IF _HAS_PROM THEN 200 ELSE 404)
        /\ (lastHttp' # lastHttp /\ lastHttp'.path = "/metrics" /\ _HAS_PROM) =>
              lastHttp'.body = Snapshot
        /\ lastHttp'.path \notin {"/healthz", "/metrics", "none"} =>
              lastHttp'.status = 404
      ]_vars

\* A scrape of /metrics refused because the library is missing.
C6_Witness ==
    /\ ~_HAS_PROM
    /\ lastHttp.path = "/metrics"
    /\ lastHttp.status = 404

\* C8: with the registry in place, update_cell sets the throughput series of
\* the (model, sweep_type, config) it is called with to the value given and
\* leaves every other throughput series as it was; no other operation
\* touches the gauge.
C8_CellSetsItsOwnSeries ==
    [][ /\ (CellStep /\ _HAS_PROM) =>
              \A k \in CellKeys :
                  THROUGHPUT_TPS'[k] =
                      IF k = <<lastMetric'.model, lastMetric'.sweep_type,
                               lastMetric'.config>>
                      THEN Sample(lastMetric'.value)
                      ELSE THROUGHPUT_TPS[k]
        /\ ~CellStep => THROUGHPUT_TPS' = THROUGHPUT_TPS
      ]_vars

\* Two calls that differ in the config label only: two series, two values.
C8_Witness ==
    /\ THROUGHPUT_TPS[<<"m1", "s1", "c1">>] = Sample(10)
    /\ THROUGHPUT_TPS[<<"m1", "s1", "c2">>] = Sample(20)
    /\ Cardinality({k \in CellKeys : THROUGHPUT_TPS[k].present}) = 2

\* C9 (as claimed): update_cell returns normally for every error count and
\* adds the count to the error counter exactly when it is positive;
\* update_sweep adds one to the sweep counter; neither counter decreases.
C9_CountersByPositiveAmounts ==
    [][ /\ (CellStep /\ _HAS_PROM) =>
              /\ lastMetric'.raised = NoExc
              /\ \A s \in SweepTypes :
                    ERRORS_TOTAL'[s].value =
                        ERRORS_TOTAL[s].value +
                        (IF s = lastMetric'.sweep_type /\ lastMetric'.errors > 0
                         THEN lastMetric'.errors ELSE 0)
        /\ (metricCalls' = metricCalls + 1 /\ lastMetric'.op = "update_sweep"
            /\ _HAS_PROM) =>
              \A s \in SweepTypes :
                    SWEEPS_TOTAL'[s].value =
                        SWEEPS_TOTAL[s].value +
                        (IF s = lastMetric'.sweep_type THEN 1 ELSE 0)
        /\ \A s \in SweepTypes :
              /\ ERRORS_TOTAL'[s].value >= ERRORS_TOTAL[s].value
              /\ SWEEPS_TOTAL'[s].value >= SWEEPS_TOTAL[s].value
      ]_vars
====
